---- MODULE Spec2Model ----
(***************************************************************************)
(* Lead qualification service: the quality classifier, seed ingestion,     *)
(* the two HTTP handlers and the analytics reports of backend/app.py and   *)
(* backend/analytics.py, over the two tables of backend/models.py.         *)
(*                                                                         *)
(* Python values that may be None or of several types are tagged records   *)
(* (JNull, JStr, JNum, JList, JObj).  A Python str is a sequence of        *)
(* characters (or of longer chunks where the code never looks inside).     *)
(*                                                                         *)
(* request and response hold the inputs and the result of the last call    *)
(* run to completion; sessions holds the calls in flight when calls of     *)
(* several worker processes interleave on the one database.                *)
(***************************************************************************)
EXTENDS Integers, Sequences, FiniteSets, TLC

VARIABLES LLM_AVAILABLE, leads, events, request, response, sessions

vars == <<LLM_AVAILABLE, leads, events, request, response, sessions>>

----------------------------------------------------------------------------
(* Bounds of the model *)

MaxEvents == 2

MaxRows == 2

MaxProcs == 2

MaxFilterEvents == 4

----------------------------------------------------------------------------
(* Python / JSON values *)

JNull == [t |-> "null"]

JStr(s) == [t |-> "str", s |-> s]

JNum(n) == [t |-> "num", n |-> n]

JList == [t |-> "list"]

\* A list with elements.
JListOf(items) == [t |-> "list", items |-> items]

JObj(f) == [t |-> "obj", f |-> f]

\* Python truthiness of a value: None, "", 0, [] and {} are falsy.
Truthy(v) ==
    CASE v.t = "null" -> FALSE
      [] v.t = "str"  -> v.s # <<>>
      [] v.t = "num"  -> v.n # 0
      [] v.t = "list" -> "items" \in DOMAIN v /\ v.items # <<>>
      [] v.t = "obj"  -> DOMAIN v.f # {}

\* `key in v` followed by `v[key]` on a dict; any other value raises.
HasKey(v, key) == v.t = "obj" /\ key \in DOMAIN v.f

\* `piece in text` on two str.
Contains(text, piece) ==
    \E i \in 0..(Len(text) - Len(piece)) : SubSeq(text, i + 1, i + Len(piece)) = piece

Digit(d) == CASE d = 0 -> "0" [] d = 1 -> "1" [] d = 2 -> "2" [] d = 3 -> "3"
              [] d = 4 -> "4" [] d = 5 -> "5" [] d = 6 -> "6" [] d = 7 -> "7"
              [] d = 8 -> "8" [] d = 9 -> "9"

RECURSIVE NatStr(_)
NatStr(n) == IF n < 10 THEN <<Digit(n)>> ELSE NatStr(n \div 10) \o <<Digit(n % 10)>>

\* str(n), as the f-string formats an int.
ToStr(n) == IF n < 0 THEN <<"-">> \o NatStr(0 - n) ELSE NatStr(n)

DigitChars == {"0", "1", "2", "3", "4", "5", "6", "7", "8", "9"}

DigitVal(c) == CHOOSE d \in 0..9 : Digit(d) = c

RECURSIVE NatVal(_)
NatVal(s) == IF s = <<>> THEN 0
             ELSE 10 * NatVal(SubSeq(s, 1, Len(s) - 1)) + DigitVal(s[Len(s)])

AllDigits(s) == s # <<>> /\ \A i \in 1..Len(s) : s[i] \in DigitChars

\* int(text): whether it parses, and its value.
IntParses(s) ==
    \/ AllDigits(s)
    \/ Len(s) > 1 /\ s[1] = "-" /\ AllDigits(Tail(s))

IntOf(s) == IF s[1] = "-" THEN 0 - NatVal(Tail(s)) ELSE NatVal(s)

----------------------------------------------------------------------------
(* Quality classifier *)

High == <<"High">>

Medium == <<"Medium">>

Low == <<"Low">>

Qualities == {High, Medium, Low}

Referral == <<"Referral">>

TradeShow == <<"Trade Show">>

Organic == <<"Organic">>

\* DefaultQuality without the exclusion of Organic from Medium.
DefaultQuality_OrganicMedium(size, source) ==
    IF size >= 500 /\ source \in {Referral, TradeShow} THEN High
    ELSE IF size >= 100 THEN Medium
    ELSE Low

\* The rule of the branch taken when the LLM is not available.
DefaultQuality(size, source) ==
    IF size >= 500 /\ source \in {Referral, TradeShow} THEN High
    ELSE IF size >= 100 /\ source \notin {Organic} THEN Medium
    ELSE Low

DefaultSummary(company, industry, size, source) ==
    <<"Lead from ">> \o company \o <<" in ">> \o industry
        \o <<" industry with ">> \o ToStr(size)
        \o <<" employees. Source: ">> \o source \o <<".">>

\* FallbackQuality with a strict size threshold for High.
FallbackQuality_StrictSize(size, source) ==
    IF size > 500 /\ source \in {Referral, TradeShow} THEN High
    ELSE IF size >= 100 /\ source \notin {Organic} THEN Medium
    ELSE Low

\* The rule of the except branch, written out a second time in the code.
FallbackQuality(size, source) ==
    IF size >= 500 /\ source \in {Referral, TradeShow} THEN High
    ELSE IF size >= 100 /\ source \notin {Organic} THEN Medium
    ELSE Low

FallbackSummary(company, industry, size, source) ==
    <<"Lead from ">> \o company \o <<" in ">> \o industry
        \o <<" industry with ">> \o ToStr(size)
        \o <<" employees. Source: ">> \o source \o <<".">>

Enhancement(quality, summary) ==
    JObj([quality |-> JStr(quality), summary |-> JStr(summary)])

\* Outcome of the external chat completion call and of json.loads on its text:
\*   "error"   the call raised (network error, timeout, no content)
\*   "badjson" the text is not valid JSON
\*   "json"    the text parsed; val is the parsed value
LLMError == [kind |-> "error"]

LLMBadJson == [kind |-> "badjson"]

LLMJson(v) == [kind |-> "json", val |-> v]

enhance_lead_with_llm(name, company, industry, size, source, llm) ==
    IF ~LLM_AVAILABLE
    THEN Enhancement(DefaultQuality(size, source),
                     DefaultSummary(company, industry, size, source))
    ELSE IF llm.kind = "json"
    THEN llm.val
    ELSE Enhancement(FallbackQuality(size, source),
                     FallbackSummary(company, industry, size, source))

----------------------------------------------------------------------------
(* Inputs of the classifier specification *)

Tech == <<"T", "e", "c", "h">>

Fin == <<"F", "i", "n">>

SizeSamples == {0, 1, 99, 100, 101, 499, 500, 501, 1000}

SourceSamples == {Referral, TradeShow, Organic, <<"PPC">>, <<"Email">>, <<"referral">>}

NameSamples == {<<"Ann">>, <<"Bob">>}

CompanySamples == {<<"Acme">>, <<"Bolt">>}

IndustrySamples == {Tech, Fin}

LLMSummary == <<"A promising lead.">>

LLMOutcomes ==
    { LLMError, LLMBadJson,
      LLMJson(JList), LLMJson(JNum(5)), LLMJson(JNull),
      LLMJson(Enhancement(High, LLMSummary)),
      LLMJson(Enhancement(Medium, LLMSummary)),
      LLMJson(Enhancement(Low, LLMSummary)),
      LLMJson(Enhancement(<<"Very High">>, LLMSummary)),
      LLMJson(JObj([quality |-> JStr(High)])),
      LLMJson(JObj([summary |-> JStr(LLMSummary)])),
      LLMJson(JObj([quality |-> JStr(High), summary |-> JNull])),
      LLMJson(JObj([quality |-> JNull, summary |-> JStr(LLMSummary)])) }

\* The outcomes drawn for each row of a CSV file.
RowOutcomes ==
    { LLMError, LLMBadJson, LLMJson(JList),
      LLMJson(Enhancement(High, LLMSummary)),
      LLMJson(Enhancement(Low, LLMSummary)),
      LLMJson(Enhancement(<<"Very High">>, LLMSummary)),
      LLMJson(JObj([quality |-> JStr(High)])),
      LLMJson(JObj([quality |-> JStr(High), summary |-> JNull])),
      LLMJson(JObj([quality |-> JNull, summary |-> JStr(LLMSummary)])) }

NoRequest == [op |-> "none"]

NoResponse == [op |-> "none"]

\* The worker processes sharing the database, and a process between calls.
Procs == 1..MaxProcs

Idle == [pc |-> "idle"]

Init ==
    /\ LLM_AVAILABLE \in BOOLEAN
    /\ leads = <<>>
    /\ events = <<>>
    /\ request = NoRequest
    /\ response = NoResponse
    /\ sessions = [p \in Procs |-> Idle]

\* One call of the classifier on drawn inputs.
Classify ==
    \E name \in NameSamples, company \in CompanySamples, industry \in IndustrySamples,
       size \in SizeSamples, source \in SourceSamples, llm \in LLMOutcomes :
        /\ request = NoRequest
        /\ request' = [op |-> "classify", name |-> name, company |-> company,
                       industry |-> industry, size |-> size, source |-> source,
                       llm |-> llm]
        /\ response' = [op |-> "classify",
                        result |-> enhance_lead_with_llm(name, company, industry,
                                                         size, source, llm)]
        /\ UNCHANGED <<LLM_AVAILABLE, leads, events, sessions>>

NextClassify == Classify

SpecClassify == Init /\ [][NextClassify]_vars

----------------------------------------------------------------------------
(* Timestamps.  Time is counted in days.  An ISO-8601 text is the date as   *)
(* digit characters, optionally followed by the offset chunk "+00:00";      *)
(* "Z" is the one-character UTC suffix.  The offset is not kept by the      *)
(* DateTime columns, so a time is the wall-clock value alone.               *)

ReplaceZ(c) == IF c = "Z" THEN "+00:00" ELSE c

\* text.replace('Z', '+00:00')
replace_Z(s) == [i \in 1..Len(s) |-> ReplaceZ(s[i])]

\* datetime.fromisoformat(text): whether it parses, and the time it gives.
IsoDate(s) ==
    IF s # <<>> /\ s[Len(s)] = "+00:00" THEN SubSeq(s, 1, Len(s) - 1) ELSE s

IsoParses(s) == AllDigits(IsoDate(s))

IsoOf(s) == NatVal(IsoDate(s))

\* The readings of datetime.now() drawn here, in days.
Times == {8, 9}

\* The earliest of the readings.
FirstTime == CHOOSE t \in Times : \A u \in Times : t <= u

----------------------------------------------------------------------------
(* Lead store and seed ingestion *)

Row(id, name, company, industry, size, source, created_at) ==
    [id |-> id, name |-> name, company |-> company, industry |-> industry,
     size |-> size, source |-> source, created_at |-> created_at]

R1 == Row(<<"1">>, <<"Ann">>, <<"Acme">>, Tech, <<"6", "0", "0">>, Referral, <<"3", "Z">>)

R2 == Row(<<"2">>, <<"Bob">>, <<"Bolt">>, Fin, <<"1", "5", "0">>, <<"PPC">>, <<"4">>)

\* created_at as data/generate_data.py writes it: isoformat() of an aware
\* datetime, then "Z".
R3 == Row(<<"3">>, <<"Cy">>, <<"Core">>, <<"a", "_", "b">>, <<"1", "0">>, Organic,
          <<"5", "+00:00", "Z">>)

RDup == Row(<<"1">>, <<"Dee">>, <<"Dune">>, Fin, <<"5", "0", "0">>, TradeShow, <<"5">>)

RBadSize == Row(<<"4">>, <<"Eve">>, <<"Edge">>, Tech, <<"x">>, Referral, <<"5">>)

NoCsv == [exists |-> FALSE]

Csv(rows) == [exists |-> TRUE, rows |-> rows]

\* A column of type String/Text takes a str; a nullable one also takes None.
\* A list or a dict cannot be bound as a parameter.
ColumnAccepts(v, nullable) == v.t = "str" \/ (nullable /\ v.t = "null")

\* The rows of the loop that raise before db.add: int(row['size']),
\* int(row['id']), enhancement['quality'], enhancement['summary'].
RowRaises(row, enh) ==
    \/ ~IntParses(row.size)
    \/ ~IntParses(row.id)
    \/ ~HasKey(enh, "quality")
    \/ ~HasKey(enh, "summary")

ParseCreatedAt(text, now) ==
    IF IsoParses(replace_Z(text)) THEN IsoOf(replace_Z(text)) ELSE now

\* The LeadModel built from a CSV row and its enhancement.
LeadOf(row, enh, now) ==
    [id |-> IntOf(row.id), name |-> row.name, company |-> row.company,
     industry |-> row.industry, size |-> IntOf(row.size), source |-> row.source,
     created_at |-> ParseCreatedAt(row.created_at, now),
     quality |-> enh.f.quality, summary |-> enh.f.summary]

EnhancementOf(row, llm) ==
    enhance_lead_with_llm(row.name, row.company, row.industry,
                          IntOf(row.size), row.source, llm)

\* db.commit() of the pending leads: the primary key is unique, quality is
\* NOT NULL, summary is nullable.
CommitRaises(pending) ==
    \/ \E i, j \in 1..Len(pending) : i # j /\ pending[i].id = pending[j].id
    \/ \E i \in 1..Len(pending) :
          \/ \E k \in 1..Len(leads) : leads[k].id = pending[i].id
          \/ ~ColumnAccepts(pending[i].quality, FALSE)
          \/ ~ColumnAccepts(pending[i].summary, TRUE)

\* The table scanned in primary key order.
RECURSIVE InsertById(_, _)
InsertById(table, row) ==
    IF table = <<>> THEN <<row>>
    ELSE IF row.id < Head(table).id THEN <<row>> \o table
    ELSE <<Head(table)>> \o InsertById(Tail(table), row)

RECURSIVE InsertAll(_, _)
InsertAll(table, pending) ==
    IF pending = <<>> THEN table
    ELSE InsertAll(InsertById(table, Head(pending)), Tail(pending))

\* load_sample_data committing each row as it is added: the rows before the
\* first one that fails stay stored.
load_sample_data_RowByRow(csv, llms, now) ==
    LET Fails(i) ==
            \/ ~IntParses(csv.rows[i].size)
            \/ RowRaises(csv.rows[i], EnhancementOf(csv.rows[i], llms[i]))
            \/ \E k \in 1..(i - 1) : csv.rows[k].id = csv.rows[i].id
            \/ ~ColumnAccepts(EnhancementOf(csv.rows[i], llms[i]).f.quality, FALSE)
            \/ ~ColumnAccepts(EnhancementOf(csv.rows[i], llms[i]).f.summary, TRUE)
        good == {n \in 0..Len(csv.rows) : \A i \in 1..n : ~Fails(i)}
        n == CHOOSE x \in good : \A y \in good : y <= x
        stored == [i \in 1..n |->
                      LeadOf(csv.rows[i], EnhancementOf(csv.rows[i], llms[i]), now)]
        outcome == IF leads # <<>> THEN "skipped"
                   ELSE IF ~csv.exists THEN "no_csv"
                   ELSE IF n < Len(csv.rows) THEN "rolled_back"
                   ELSE "loaded"
    IN  /\ request' = IF outcome = "skipped" THEN [op |-> "startup"]
                      ELSE IF outcome = "no_csv" THEN [op |-> "startup", csv |-> csv]
                      ELSE [op |-> "startup", csv |-> csv, llms |-> llms, now |-> now]
        /\ response' = [op |-> "startup", outcome |-> outcome]
        /\ leads' = IF outcome \in {"loaded", "rolled_back"}
                    THEN InsertAll(leads, stored) ELSE leads
        /\ UNCHANGED <<LLM_AVAILABLE, events, sessions>>

\* The startup handler run on a CSV file, with the outcome of the external
\* call for each row and the clock reading.
load_sample_data(csv, llms, now) ==
    LET raises == \E i \in 1..Len(csv.rows) :
                      ~IntParses(csv.rows[i].size)
                      \/ RowRaises(csv.rows[i], EnhancementOf(csv.rows[i], llms[i]))
        pending == [i \in 1..Len(csv.rows) |->
                       LeadOf(csv.rows[i], EnhancementOf(csv.rows[i], llms[i]), now)]
        outcome == IF leads # <<>> THEN "skipped"
                   ELSE IF ~csv.exists THEN "no_csv"
                   ELSE IF raises THEN "rolled_back"
                   ELSE IF CommitRaises(pending) THEN "rolled_back"
                   ELSE "loaded"
    IN  /\ request' = IF outcome = "skipped" THEN [op |-> "startup"]
                      ELSE IF outcome = "no_csv" THEN [op |-> "startup", csv |-> csv]
                      ELSE [op |-> "startup", csv |-> csv, llms |-> llms, now |-> now]
        /\ response' = [op |-> "startup", outcome |-> outcome]
        /\ leads' = IF outcome = "loaded" THEN InsertAll(leads, pending) ELSE leads
        /\ UNCHANGED <<LLM_AVAILABLE, events, sessions>>

Rows == {R1, R2, R3, RDup, RBadSize}

RECURSIVE SeqsUpTo(_, _)
SeqsUpTo(S, n) ==
    IF n = 0 THEN {<<>>}
    ELSE SeqsUpTo(S, n - 1) \cup
         {Append(q, x) : q \in {r \in SeqsUpTo(S, n - 1) : Len(r) = n - 1}, x \in S}

CsvFiles == {NoCsv} \cup {Csv(rows) : rows \in SeqsUpTo(Rows, MaxRows)}

LLMsFor(csv, outcomes) ==
    IF csv.exists THEN [1..Len(csv.rows) -> outcomes] ELSE {<<>>}

\* Startup of the process, once, on any CSV file and any outcomes of the
\* external calls.
Ingest ==
    \E csv \in CsvFiles :
        \E llms \in LLMsFor(csv, RowOutcomes), now \in Times :
            /\ request = NoRequest
            /\ load_sample_data(csv, llms, now)

NextIngest == Ingest

SpecIngest == Init /\ [][NextIngest]_vars

\* The process started again and again, on any CSV file each time: the first
\* run on any outcomes of the external calls, the later runs with the external
\* call failing.
RestartRows == {R1, R2, RDup, RBadSize}

RestartFiles == {NoCsv} \cup {Csv(rows) : rows \in SeqsUpTo(RestartRows, MaxRows)}

RestartOutcomes == {LLMError, LLMJson(JList)}

FirstRun ==
    \E csv \in RestartFiles :
        \E llms \in LLMsFor(csv, RestartOutcomes), now \in Times :
            /\ request = NoRequest
            /\ load_sample_data(csv, llms, now)

Rerun ==
    \E csv \in RestartFiles :
        /\ request # NoRequest
        /\ load_sample_data(csv, CHOOSE llms \in LLMsFor(csv, {LLMError}) : TRUE,
                            FirstTime)

NextRestart == FirstRun \/ Rerun

SpecRestart == Init /\ [][NextRestart]_vars

----------------------------------------------------------------------------
(* Event store and the HTTP handlers *)

Max(S) == CHOOSE m \in S : \A x \in S : x <= m

EventIds(table) == {table[i].id : i \in 1..Len(table)}

\* NextEventId reusing the largest id.
NextEventId_Reuse(table) == IF table = <<>> THEN 1 ELSE Max(EventIds(table))

\* INTEGER PRIMARY KEY without AUTOINCREMENT: one more than the largest id.
NextEventId(table) == IF table = <<>> THEN 1 ELSE Max(EventIds(table)) + 1

EventModel(action, data, timestamp) ==
    [id |-> NextEventId(events), action |-> action, data |-> data,
     timestamp |-> timestamp]

LowerChar(c) ==
    CASE c = "T" -> "t" [] c = "E" -> "e" [] c = "C" -> "c" [] c = "H" -> "h"
      [] c = "F" -> "f" [] c = "I" -> "i" [] c = "N" -> "n"
      [] c = "A" -> "a" [] c = "B" -> "b" [] OTHER -> c

lower(s) == [i \in 1..Len(s) |-> LowerChar(s[i])]

\* text LIKE pattern: % matches any run of characters, _ any one character.
RECURSIVE Like(_, _)
Like(pattern, text) ==
    IF pattern = <<>> THEN text = <<>>
    ELSE IF Head(pattern) = "%"
    THEN Like(Tail(pattern), text) \/ (text # <<>> /\ Like(pattern, Tail(text)))
    ELSE /\ text # <<>>
         /\ Head(pattern) = "_" \/ Head(pattern) = Head(text)
         /\ Like(Tail(pattern), Tail(text))

\* column.ilike(pattern): lower(column) LIKE lower(pattern)
ilike(column, pattern) == Like(lower(pattern), lower(column))

\* The query of get_leads: the filters are applied when truthy.
QueryLeads(industry, size) ==
    LET keep(lead) ==
            /\ Truthy(industry) => ilike(lead.industry, <<"%">> \o industry.s \o <<"%">>)
            /\ Truthy(size) => lead.size >= size.n
    IN  SelectSeq(leads, keep)

\* filter_data, and None when it is empty.
FilterData(industry, size) ==
    LET keys == (IF Truthy(industry) THEN {"industry"} ELSE {})
                \cup (IF Truthy(size) THEN {"size"} ELSE {})
    IN  IF keys = {} THEN JNull
        ELSE JObj([k \in keys |-> IF k = "industry" THEN industry ELSE size])

\* datetime.isoformat()
isoformat(t) == NatStr(t)

\* LeadResponse(...): every field is required; summary: str rejects None.
LeadResponseRaises(lead) == lead.summary.t # "str" \/ lead.quality.t # "str"

LeadResponse(lead) ==
    [id |-> ToStr(lead.id), name |-> lead.name, company |-> lead.company,
     industry |-> lead.industry, size |-> lead.size, source |-> lead.source,
     created_at |-> isoformat(lead.created_at), quality |-> lead.quality.s,
     summary |-> lead.summary.s]

\* get_leads writing the rows it found back as the table.
get_leads_StoresFound(industry, size, now, commits) ==
    LET found == QueryLeads(industry, size)
        event == EventModel("filter", FilterData(industry, size), now)
        raises == \E i \in 1..Len(found) : LeadResponseRaises(found[i])
    IN  /\ request' = [op |-> "get_leads", industry |-> industry, size |-> size,
                       now |-> now, commits |-> commits]
        /\ events' = IF commits THEN Append(events, event) ELSE events
        /\ response' =
              IF commits /\ ~raises
              THEN [op |-> "get_leads", status |-> 200,
                    body |-> [i \in 1..Len(found) |-> LeadResponse(found[i])]]
              ELSE [op |-> "get_leads", status |-> 500]
        /\ leads' = found
        /\ UNCHANGED <<LLM_AVAILABLE, sessions>>

\* GET /api/leads.  commits: whether db.commit() of the event succeeds.
get_leads(industry, size, now, commits) ==
    LET found == QueryLeads(industry, size)
        event == EventModel("filter", FilterData(industry, size), now)
        raises == \E i \in 1..Len(found) : LeadResponseRaises(found[i])
    IN  /\ request' = [op |-> "get_leads", industry |-> industry, size |-> size,
                       now |-> now, commits |-> commits]
        /\ events' = IF commits THEN Append(events, event) ELSE events
        /\ response' =
              IF commits /\ ~raises
              THEN [op |-> "get_leads", status |-> 200,
                    body |-> [i \in 1..Len(found) |-> LeadResponse(found[i])]]
              ELSE [op |-> "get_leads", status |-> 500]
        /\ UNCHANGED <<LLM_AVAILABLE, leads, sessions>>

\* EventTimestamp without the replacement of the "Z" suffix.
EventTimestamp_KeepZ(timestamp, now) ==
    IF Truthy(timestamp)
    THEN IF IsoParses(timestamp.s) THEN IsoOf(timestamp.s) ELSE now
    ELSE now

\* The timestamp post_event stores.
EventTimestamp(timestamp, now) ==
    IF Truthy(timestamp)
    THEN IF IsoParses(replace_Z(timestamp.s)) THEN IsoOf(replace_Z(timestamp.s))
         ELSE now
    ELSE now

\* EventResponse(...): data: Optional[Dict[str, Any]] takes None or a mapping.
\* (Numbers and strings are rejected; lists are not drawn as inputs here.)
EventResponseRaises(event) == event.data.t \notin {"null", "obj"}

EventResponse(event) ==
    [id |-> event.id, action |-> event.action, data |-> event.data,
     timestamp |-> isoformat(event.timestamp)]

\* POST /api/events.  commits: whether db.commit() of the event succeeds.
post_event(action, data, timestamp, now, commits) ==
    LET event == EventModel(action, data, EventTimestamp(timestamp, now))
    IN  /\ request' = [op |-> "post_event", action |-> action, data |-> data,
                       timestamp |-> timestamp, now |-> now, commits |-> commits]
        /\ events' = IF commits THEN Append(events, event) ELSE events
        /\ response' =
              IF commits /\ ~EventResponseRaises(event)
              THEN [op |-> "post_event", status |-> 200, body |-> EventResponse(event)]
              ELSE [op |-> "post_event", status |-> 500]
        /\ UNCHANGED <<LLM_AVAILABLE, leads, sessions>>

----------------------------------------------------------------------------
(* Analytics reports (backend/analytics.py); the printed report is the      *)
(* response.  Hours of the day are not modelled.                            *)

Window == 7

TopK == 3

Indices(table, Keep(_)) == {i \in 1..Len(table) : Keep(table[i])}

\* SELECT key, COUNT(*) ... GROUP BY key over the rows kept.
GroupCount(table, Keep(_), Key(_)) ==
    [k \in {Key(table[i]) : i \in Indices(table, Keep)} |->
        Cardinality({i \in Indices(table, Keep) : Key(table[i]) = k})]

get_lead_by_id(lead_id) ==
    LET found == SelectSeq(leads, LAMBDA lead : lead.id = lead_id)
    IN  /\ request' = [op |-> "get_lead_by_id", lead_id |-> lead_id]
        /\ response' = IF found = <<>>
                       THEN [op |-> "get_lead_by_id", found |-> FALSE]
                       ELSE [op |-> "get_lead_by_id", found |-> TRUE,
                             lead |-> Head(found)]
        /\ UNCHANGED <<LLM_AVAILABLE, leads, events, sessions>>

IsFilter(event) == event.action = "filter"

\* `'industry' in event.data` raises TypeError on a number.
MembershipRaises(data) == Truthy(data) /\ data.t = "num"

\* `key in data` on a dict (a key), a str (a substring) or a list (an element).
Member(key, data) ==
    CASE data.t = "obj"  -> key \in DOMAIN data.f
      [] data.t = "str"  -> Contains(data.s, <<key>>)
      [] data.t = "list" -> \E i \in 1..Len(data.items) : data.items[i] = JStr(<<key>>)
      [] OTHER -> FALSE

\* `event.data[key]` after `key in event.data`: a str or a list indexed by a
\* str raises TypeError.
FieldRaises(key, data) ==
    Truthy(data) /\ data.t \in {"str", "list"} /\ Member(key, data)

\* A list or a dict cannot be a key of industry_filters.
Unhashable(v) == v.t \in {"list", "obj"}

RECURSIVE SumSeq(_)
SumSeq(q) == IF q = <<>> THEN 0 ELSE Head(q) + SumSeq(Tail(q))

\* num / den rounded to the nearest integer, halves to the even one, as the
\* format specs .0f and .1f round a value that is exact in binary.
RoundDiv(num, den) ==
    LET q == num \div den
        r == num % den
    IN  IF 2 * r > den THEN q + 1
        ELSE IF 2 * r = den THEN q + (q % 2)
        ELSE q

\* f"{num / den:.1f}", in tenths.
Fixed1(num, den) == RoundDiv(10 * num, den)

\* The line "Average events per day", in tenths; JNull when it is not printed.
AverageLine(total_events, unique_days) ==
    IF unique_days > 0 THEN JNum(Fixed1(total_events, unique_days)) ELSE JNull

get_usage_analytics(now) ==
    LET filter_events == SelectSeq(events, IsFilter)
        HasIndustry(event) == Truthy(event.data) /\ HasKey(event.data, "industry")
        HasSize(event) == Truthy(event.data) /\ HasKey(event.data, "size")
        sized == SelectSeq(filter_events, HasSize)
        raises ==
            \/ \E i \in 1..Len(filter_events) :
                  LET data == filter_events[i].data
                  IN  \/ MembershipRaises(data)
                      \/ FieldRaises("industry", data)
                      \/ FieldRaises("size", data)
                      \/ HasIndustry(filter_events[i]) /\ Unhashable(data.f.industry)
            \* sum(size_filters) on a value that is not a number
            \/ \E i \in 1..Len(sized) : sized[i].data.f.size.t # "num"
        size_filters == [i \in 1..Len(sized) |-> sized[i].data.f.size.n]
        Recent(event) == event.timestamp >= now - Window
        report ==
            [action_counts |-> GroupCount(events, LAMBDA e : TRUE, LAMBDA e : e.action),
             industry_filters |->
                 GroupCount(filter_events, HasIndustry, LAMBDA e : e.data.f.industry),
             size_filters |-> size_filters,
             size_sum |-> SumSeq(size_filters),
             avg_size_filter |->
                 IF size_filters # <<>>
                 THEN JNum(RoundDiv(SumSeq(size_filters), Len(size_filters)))
                 ELSE JNull,
             recent_events |-> GroupCount(events, Recent, LAMBDA e : e.timestamp),
             total_events |-> Len(events),
             unique_days |-> Cardinality({events[i].timestamp : i \in 1..Len(events)}),
             average |->
                 AverageLine(Len(events),
                             Cardinality({events[i].timestamp : i \in 1..Len(events)}))]
    IN  /\ request' = [op |-> "get_usage_analytics", now |-> now]
        /\ response' = IF raises
                       THEN [op |-> "get_usage_analytics", status |-> "raised"]
                       ELSE [op |-> "get_usage_analytics", status |-> "ok",
                             report |-> report]
        /\ UNCHANGED <<LLM_AVAILABLE, leads, events, sessions>>

size_range(lead) ==
    IF lead.size < 50 THEN "Small (1-49)"
    ELSE IF lead.size < 200 THEN "Medium (50-199)"
    ELSE IF lead.size < 500 THEN "Large (200-499)"
    ELSE "Enterprise (500+)"

RECURSIVE SumCounts(_, _)
SumCounts(counts, keys) ==
    IF keys = {} THEN 0
    ELSE LET k == CHOOSE x \in keys : TRUE
         IN  counts[k] + SumCounts(counts, keys \ {k})

\* Percentage cut down to a whole per cent.
Percentage_Truncated(count, total) == 10 * ((100 * count) \div total)

\* percentage = (count / total) * 100 printed with .1f, in tenths.
Percentage(count, total) == Fixed1(100 * count, total)

get_lead_analytics ==
    LET All(lead) == TRUE
        quality_counts == GroupCount(leads, All, LAMBDA l : l.quality)
        total_leads == SumCounts(quality_counts, DOMAIN quality_counts)
        report ==
            [quality_counts |-> quality_counts,
             total_leads |-> total_leads,
             quality_percentages |->
                 [q \in DOMAIN quality_counts |->
                     Percentage(quality_counts[q], total_leads)],
             industry_quality |->
                 GroupCount(leads, All, LAMBDA l : <<l.industry, l.quality>>),
             size_ranges |-> GroupCount(leads, All, size_range),
             source_quality |->
                 GroupCount(leads, All, LAMBDA l : <<l.source, l.quality>>)]
    IN  /\ request' = [op |-> "get_lead_analytics"]
        /\ response' = [op |-> "get_lead_analytics", status |-> "ok", report |-> report]
        /\ UNCHANGED <<LLM_AVAILABLE, leads, events, sessions>>

\* JSON_EXTRACT(data, '$.industry') IS NOT NULL
ExtractsIndustry(data) == HasKey(data, "industry") /\ data.f.industry.t # "null"

\* The results ORDER BY uses DESC LIMIT 3 may give: SQL leaves the order of
\* equal counts open.
TopOrders(uses) ==
    LET n == IF Cardinality(DOMAIN uses) < TopK THEN Cardinality(DOMAIN uses) ELSE TopK
    IN  { q \in [1..n -> DOMAIN uses] :
            /\ \A i, j \in 1..n : i < j => q[i] # q[j] /\ uses[q[i]] >= uses[q[j]]
            /\ \A k \in DOMAIN uses :
                  (\A i \in 1..n : q[i] # k) => \A i \in 1..n : uses[q[i]] >= uses[k] }

\* JSON_EXTRACT(data, '$.a.b'): the value at the path, NULL when there is none.
RECURSIVE JsonExtract(_, _)
JsonExtract(data, path) ==
    IF path = <<>> THEN data
    ELSE IF HasKey(data, Head(path))
    THEN JsonExtract(data.f[Head(path)], Tail(path))
    ELSE JNull

\* The JSON paths of alt_queries, in the order they are tried.
alt_queries == << <<"filters", "industry">>, <<"selectedIndustry">>, <<"filter_industry">> >>

possible_keys == <<"industry", "selectedIndustry", "filter_industry", "industryFilter">>

Perms(S) ==
    {q \in [1..Cardinality(S) -> S] : \A i, j \in 1..Cardinality(S) : i # j => q[i] # q[j]}

\* The industry the last-resort loop takes from a payload: the value of the
\* first of possible_keys the dict has, None otherwise.
PickedIndustry(data) ==
    LET present == {k \in 1..Len(possible_keys) : HasKey(data, possible_keys[k])}
    IN  IF present = {} THEN JNull
        ELSE data.f[possible_keys[CHOOSE k \in present : \A m \in present : k <= m]]

\* sorted(industry_counts.items(), key=lambda x: x[1], reverse=True)[:3] over
\* the industries in the order the loop met them: the sort is stable.
SortedIndustries(counted) ==
    LET keys == {counted[i] : i \in 1..Len(counted)}
        count(k) == Cardinality({i \in 1..Len(counted) : counted[i] = k})
        first(k) == CHOOSE i \in 1..Len(counted) :
                        counted[i] = k /\ \A m \in 1..(i - 1) : counted[m] # k
        sorted == CHOOSE q \in Perms(keys) :
                      \A i, j \in 1..Len(q) : i < j =>
                          \/ count(q[i]) > count(q[j])
                          \/ count(q[i]) = count(q[j]) /\ first(q[i]) < first(q[j])
        n == IF Cardinality(keys) < TopK THEN Cardinality(keys) ELSE TopK
    IN  [i \in 1..n |-> [industry |-> sorted[i], uses |-> count(sorted[i])]]

\* ROUND(100.0 * count / total, 2), in hundredths.
ViewPct(count, total) == (2 * 10000 * count + total) \div (2 * total)

\* The view preference table, or the view-related events when it is empty.
ViewPreference ==
    LET Toggle(event) == event.action = "toggle_view"
        Viewed(event) == Toggle(event) /\ JsonExtract(event.data, <<"view">>) # JNull
        total == Cardinality(Indices(events, Toggle))
        views == GroupCount(events, Viewed, LAMBDA e : JsonExtract(e.data, <<"view">>))
    IN  [view_results |-> [v \in DOMAIN views |-> ViewPct(views[v], total)],
         view_events |-> IF DOMAIN views # {} THEN {}
                         ELSE {events[i] : i \in Indices(events, Toggle)}]

\* get_industry_filter_usage: the table of the first query that gives rows
\* ($.industry, then alt_queries), otherwise the last-resort loop over the
\* filter events of the window, newest first; then the view preference table.
\* datetime('now') is compared with the stored times as they are.
get_industry_filter_usage(now) ==
    LET InWindow(event) == IsFilter(event) /\ event.timestamp >= now - Window
        Used(event) == InWindow(event) /\ ExtractsIndustry(event.data)
        uses == GroupCount(events, Used, LAMBDA e : e.data.f.industry)
        AltUses(path) ==
            GroupCount(events,
                       LAMBDA e : InWindow(e) /\ JsonExtract(e.data, path) # JNull,
                       LAMBDA e : JsonExtract(e.data, path))
        hits == {k \in 1..Len(alt_queries) : DOMAIN AltUses(alt_queries[k]) # {}}
        hit == CHOOSE k \in hits : \A m \in hits : k <= m
        table == IF DOMAIN uses # {} THEN uses ELSE AltUses(alt_queries[hit])
        source == IF DOMAIN uses # {} THEN <<"industry">> ELSE alt_queries[hit]
        window == Indices(events, InWindow)
        answer(body) ==
            /\ request' = [op |-> "get_industry_filter_usage", now |-> now]
            /\ response' = body
            /\ UNCHANGED <<LLM_AVAILABLE, leads, events, sessions>>
    IN  IF DOMAIN uses # {} \/ hits # {}
        THEN \E top \in TopOrders(table) :
                answer([op |-> "get_industry_filter_usage", status |-> "ok",
                        source |-> source,
                        rows |-> [i \in 1..Len(top) |->
                                     [industry |-> top[i], uses |-> table[top[i]]]],
                        views |-> ViewPreference])
        ELSE \E scan \in {q \in Perms(window) : \A i, j \in 1..Len(q) : i < j =>
                             events[q[i]].timestamp >= events[q[j]].timestamp} :
                LET picked == [i \in 1..Len(scan) |-> PickedIndustry(events[scan[i]].data)]
                    counted == SelectSeq(picked, Truthy)
                IN  IF \E i \in 1..Len(counted) : Unhashable(counted[i])
                    THEN answer([op |-> "get_industry_filter_usage", status |-> "error"])
                    ELSE answer([op |-> "get_industry_filter_usage", status |-> "ok",
                                 source |-> <<"loop">>,
                                 rows |-> SortedIndustries(counted),
                                 views |-> ViewPreference])

----------------------------------------------------------------------------
(* The service: startup, then requests; the process may be restarted *)

ServiceCsvFiles == {NoCsv, Csv(<<R1, R2>>)}

ServiceOutcomes ==
    { LLMError, LLMJson(JObj([quality |-> JStr(High), summary |-> JNull])) }

\* The external call answers every row of a file alike.
ServiceLLMs(csv) ==
    IF csv.exists THEN {[i \in 1..Len(csv.rows) |-> o] : o \in ServiceOutcomes}
    ELSE {<<>>}

\* The query parameters of GET /api/leads drawn here.
LeadFilters ==
    { [industry |-> JStr(<<"t", "e", "c", "h">>), size |-> JNum(200)] }

EventInputs ==
    { [action |-> "filter", data |-> JNum(5)],
      [action |-> "toggle_view", data |-> JNull] }

TimestampInputs == {JNull, JStr(<<>>), JStr(<<"x">>), JStr(<<"3", "Z">>)}

Startup ==
    \E csv \in ServiceCsvFiles :
        \E llms \in ServiceLLMs(csv), now \in Times :
            load_sample_data(csv, llms, now)

GetLeads ==
    \E f \in LeadFilters, now \in Times, commits \in BOOLEAN :
        /\ request # NoRequest
        /\ Len(events) < MaxEvents
        /\ get_leads(f.industry, f.size, now, commits)

PostEvent ==
    \E e \in EventInputs, timestamp \in TimestampInputs,
       now \in Times, commits \in BOOLEAN :
        /\ request # NoRequest
        /\ Len(events) < MaxEvents
        /\ post_event(e.action, e.data, timestamp, now, commits)

LeadById ==
    \E lead_id \in {1} : request # NoRequest /\ get_lead_by_id(lead_id)

UsageAnalytics ==
    \E now \in Times : request # NoRequest /\ get_usage_analytics(now)

LeadAnalytics == request # NoRequest /\ get_lead_analytics

IndustryFilterUsage ==
    \E now \in Times : request # NoRequest /\ get_industry_filter_usage(now)

Next ==
    \/ Startup
    \/ GetLeads
    \/ PostEvent
    \/ LeadById
    \/ UsageAnalytics
    \/ LeadAnalytics
    \/ IndustryFilterUsage

Spec == Init /\ [][Next]_vars

----------------------------------------------------------------------------
(* One GET /api/leads after startup, on more filters and more leads *)

FilterTexts ==
    { <<>>, <<"t", "e", "c", "h">>, <<"T", "E">>, <<"f", "i">>, <<"c", "h">>,
      <<"x">>, <<"_">>, <<"%">>, <<"a", "_">> }

FilterSizes == {JNull, JNum(0), JNum(150), JNum(151), JNum(600)}

FilterStartup ==
    \E now \in Times :
        /\ request = NoRequest
        /\ load_sample_data(Csv(<<R1, R2, R3>>), <<LLMError, LLMError, LLMError>>, now)

FilterGetLeads ==
    \E industry \in {JNull} \cup {JStr(f) : f \in FilterTexts}, size \in FilterSizes,
       now \in Times, commits \in BOOLEAN :
        /\ request.op = "startup"
        /\ get_leads(industry, size, now, commits)

NextFilter == FilterStartup \/ FilterGetLeads

SpecFilter == Init /\ [][NextFilter]_vars

----------------------------------------------------------------------------
(* The lead analytics report after one startup, on files of up to five rows *)

R4 == Row(<<"4">>, <<"Dan">>, <<"Dyne">>, Tech, <<"2", "5", "0">>, TradeShow, <<"5">>)

R5 == Row(<<"5">>, <<"Eve">>, <<"Edge">>, Fin, <<"4", "0">>, <<"Email">>, <<"x">>)

ReportRows == <<R1, R2, R3, R4, R5>>

ReportCsvFiles == {NoCsv} \cup {Csv(SubSeq(ReportRows, 1, n)) : n \in 0..Len(ReportRows)}

ReportOutcomes ==
    { LLMError,
      LLMJson(Enhancement(High, LLMSummary)),
      LLMJson(Enhancement(Low, LLMSummary)),
      LLMJson(Enhancement(<<"Very High">>, LLMSummary)) }

ReportStartup ==
    \E csv \in ReportCsvFiles :
        \E llms \in LLMsFor(csv, ReportOutcomes), now \in Times :
            /\ request = NoRequest
            /\ load_sample_data(csv, llms, now)

ReportLeadAnalytics == request.op = "startup" /\ get_lead_analytics

NextReports == ReportStartup \/ ReportLeadAnalytics

SpecReports == Init /\ [][NextReports]_vars

----------------------------------------------------------------------------
(* The event reports over stored events of every payload shape that        *)
(* POST /api/events stores                                                  *)

UsagePayloads ==
    { JNull, JNum(5), JStr(<<"s">>), JStr(<<"industry">>), JList,
      JListOf(<<JNum(1)>>),
      JObj([size |-> JNum(200)]),
      JObj([industry |-> JStr(Tech)]),
      JObj([industry |-> JStr(Tech), size |-> JNum(200)]),
      JObj([industry |-> JNull]),
      JObj([industryFilter |-> JStr(Fin)]) }

UsageEvents ==
    {[action |-> "filter", data |-> d] : d \in UsagePayloads}
    \cup { [action |-> "toggle_view", data |-> JNum(5)],
           [action |-> "toggle_view", data |-> JObj([view |-> JStr(<<"pie">>)])] }

UsagePost ==
    \E e \in UsageEvents, now \in Times :
        /\ Len(events) < MaxEvents
        /\ post_event(e.action, e.data, JNull, now, TRUE)

UsageReport == \E now \in Times : get_usage_analytics(now)

UsageIndustries == \E now \in Times : get_industry_filter_usage(now)

NextUsage == UsagePost \/ UsageReport \/ UsageIndustries

SpecUsage == Init /\ [][NextUsage]_vars

----------------------------------------------------------------------------
(* The top industries report over the filter events GET /api/leads logs,    *)
(* and over older ones with a timestamp of their own                        *)

Healthcare == <<"Healthcare">>

Finance == <<"Finance">>

FilteredIndustries == {Healthcare, Finance, <<"Technology">>, <<"Manufacturing">>}

\* The events are logged at the earliest clock reading, the report is run at
\* any.
TopKGetLeads ==
    \E industry \in FilteredIndustries :
        /\ Len(events) < MaxFilterEvents
        /\ get_leads(JStr(industry), JNull, FirstTime, TRUE)

\* A filter event dated before the window of every clock reading.
TopKPostOld ==
    /\ Len(events) < MaxFilterEvents
    /\ post_event("filter", JObj([industry |-> JStr(Healthcare)]),
                  JStr(<<"0", "Z">>), FirstTime, TRUE)

TopKReport == \E now \in Times : get_industry_filter_usage(now)

NextTopK == TopKGetLeads \/ TopKPostOld \/ TopKReport

SpecTopK == Init /\ [][NextTopK]_vars

----------------------------------------------------------------------------
(* Calls of several worker processes interleaved on the one database.  A    *)
(* step is one SQL statement or transaction together with the local code   *)
(* before it; SQLite runs each write transaction alone, so the INSERT, the  *)
(* id it assigns and the COMMIT are one step.  Each process makes one call. *)

\* StoreEvent replacing the stored event of the same action.
StoreEvent_Upsert(table, event) ==
    IF \E i \in 1..Len(table) : table[i].action = event.action
    THEN [i \in 1..Len(table) |->
             IF table[i].action = event.action THEN event ELSE table[i]]
    ELSE Append(table, event)

\* db.add(event); db.commit(): one INSERT into events.
StoreEvent(table, event) == Append(table, event)

ConcurrentFilters ==
    { [industry |-> JNull, size |-> JNull],
      [industry |-> JStr(<<"t", "e", "c", "h">>), size |-> JNum(200)] }

ConcurrentEvents ==
    { [action |-> "filter", data |-> JNull],
      [action |-> "toggle_view", data |-> JNull] }

ConcurrentCsvFiles == {Csv(<<R1>>), Csv(<<R1, R2>>), Csv(<<R2>>)}

\* get_leads up to query.all(): the SELECT on leads.
get_leads_query(p, industry, size) ==
    /\ sessions[p] = Idle
    /\ sessions' = [sessions EXCEPT ![p] =
           [pc |-> "commit", op |-> "get_leads", industry |-> industry,
            size |-> size, found |-> QueryLeads(industry, size)]]
    /\ UNCHANGED <<LLM_AVAILABLE, leads, events, request, response>>

\* get_leads from filter_data to the end: the INSERT of the filter event, then
\* the response built from the rows read before.
get_leads_commit(p, now, commits) ==
    LET s == sessions[p]
        event == EventModel("filter", FilterData(s.industry, s.size), now)
        raises == \E i \in 1..Len(s.found) : LeadResponseRaises(s.found[i])
    IN  /\ s.pc = "commit" /\ s.op = "get_leads"
        /\ events' = IF commits THEN StoreEvent(events, event) ELSE events
        /\ sessions' = [sessions EXCEPT ![p] =
               [pc |-> "done", op |-> "get_leads", committed |-> commits,
                event |-> event,
                status |-> IF commits /\ ~raises THEN 200 ELSE 500]]
        /\ UNCHANGED <<LLM_AVAILABLE, leads, request, response>>

\* post_event up to db.commit(): the INSERT of the event.
post_event_commit(p, action, data, timestamp, now, commits) ==
    LET event == EventModel(action, data, EventTimestamp(timestamp, now))
    IN  /\ sessions[p] = Idle
        /\ events' = IF commits THEN StoreEvent(events, event) ELSE events
        /\ sessions' = [sessions EXCEPT ![p] =
               IF commits
               THEN [pc |-> "refresh", op |-> "post_event", committed |-> TRUE,
                     event |-> event]
               ELSE [pc |-> "done", op |-> "post_event", committed |-> FALSE,
                     event |-> event, status |-> 500]]
        /\ UNCHANGED <<LLM_AVAILABLE, leads, request, response>>

\* db.refresh(event): the SELECT of the row by the id the INSERT gave, then
\* the response built from it.
post_event_refresh(p) ==
    LET s == sessions[p]
        rows == SelectSeq(events, LAMBDA e : e.id = s.event.id)
    IN  /\ s.pc = "refresh"
        /\ sessions' = [sessions EXCEPT ![p] =
               IF rows # <<>> /\ ~EventResponseRaises(Head(rows))
               THEN [pc |-> "done", op |-> "post_event", committed |-> TRUE,
                     event |-> s.event, status |-> 200,
                     body |-> EventResponse(Head(rows))]
               ELSE [pc |-> "done", op |-> "post_event", committed |-> TRUE,
                     event |-> s.event, status |-> 500]]
        /\ UNCHANGED <<LLM_AVAILABLE, leads, events, request, response>>

\* load_sample_data up to `if existing_leads: return`: the SELECT on leads.
load_sample_data_check(p) ==
    /\ sessions[p] = Idle
    /\ sessions' = [sessions EXCEPT ![p] =
           IF leads # <<>>
           THEN [pc |-> "done", op |-> "startup", outcome |-> "skipped"]
           ELSE [pc |-> "load", op |-> "startup"]]
    /\ UNCHANGED <<LLM_AVAILABLE, leads, events, request, response>>

\* load_sample_data from the CSV loop to the end: the rows are built with
\* one external call each, then db.commit() inserts them in one transaction.
load_sample_data_load(p, csv, llms, now) ==
    LET raises == \E i \in 1..Len(csv.rows) :
                      ~IntParses(csv.rows[i].size)
                      \/ RowRaises(csv.rows[i], EnhancementOf(csv.rows[i], llms[i]))
        pending == [i \in 1..Len(csv.rows) |->
                       LeadOf(csv.rows[i], EnhancementOf(csv.rows[i], llms[i]), now)]
        outcome == IF ~csv.exists THEN "no_csv"
                   ELSE IF raises THEN "rolled_back"
                   ELSE IF CommitRaises(pending) THEN "rolled_back"
                   ELSE "loaded"
    IN  /\ sessions[p].pc = "load"
        /\ leads' = IF outcome = "loaded" THEN InsertAll(leads, pending) ELSE leads
        /\ sessions' = [sessions EXCEPT ![p] =
               [pc |-> "done", op |-> "startup", outcome |-> outcome, csv |-> csv]]
        /\ UNCHANGED <<LLM_AVAILABLE, events, request, response>>

GetLeadsQuery ==
    \E p \in Procs, f \in ConcurrentFilters : get_leads_query(p, f.industry, f.size)

GetLeadsCommit ==
    \E p \in Procs, now \in Times, commits \in BOOLEAN : get_leads_commit(p, now, commits)

PostEventCommit ==
    \E p \in Procs, e \in ConcurrentEvents, now \in Times, commits \in BOOLEAN :
        post_event_commit(p, e.action, e.data, JNull, now, commits)

PostEventRefresh == \E p \in Procs : post_event_refresh(p)

StartupCheck == \E p \in Procs : load_sample_data_check(p)

StartupLoad ==
    \E p \in Procs, csv \in ConcurrentCsvFiles, now \in Times :
        load_sample_data_load(p, csv, [i \in 1..Len(csv.rows) |-> LLMError], now)

NextConcurrent ==
    \/ GetLeadsQuery
    \/ GetLeadsCommit
    \/ PostEventCommit
    \/ PostEventRefresh
    \/ StartupCheck
    \/ StartupLoad

SpecConcurrent == Init /\ [][NextConcurrent]_vars

----------------------------------------------------------------------------
(* Properties of the classifier, under SpecClassify *)

Last(q) == q[Len(q)]

Classified == response.op = "classify"

AugmentationUsed == LLM_AVAILABLE /\ request.llm.kind = "json"

HighInputs == request.size >= 500 /\ request.source \in {Referral, TradeShow}

ReturnsQuality(q) ==
    HasKey(response.result, "quality") /\ response.result.f.quality = JStr(q)

\* C1, as stated: a lead with size >= 500 and source Referral or Trade Show is
\* classified High whether augmentation is unavailable, fails or succeeds.
C1_HighWhateverAugmentation == (Classified /\ HighInputs) => ReturnsQuality(High)

\* C1, amended: a lead with size >= 500 and source Referral or Trade Show is
\* classified High whenever augmentation is unavailable or fails.
C1_HighWithoutAugmentation ==
    (Classified /\ HighInputs /\ ~AugmentationUsed) => ReturnsQuality(High)

C1_Witness ==
    /\ Classified /\ LLM_AVAILABLE /\ request.llm.kind = "error"
    /\ request.size = 500 /\ request.source = TradeShow
    /\ ReturnsQuality(High)

\* The ordered default rule as the specification words it.
OrderedRule(size, source) ==
    IF size >= 500 /\ (source = Referral \/ source = TradeShow) THEN High
    ELSE IF size >= 100 /\ source # Organic THEN Medium
    ELSE Low

\* C2: without augmentation (unavailable, or attempted and failed) the quality
\* is the ordered default rule, and both code paths give the same quality and
\* the same templated summary, which embeds company, industry, size and source.
C2_DefaultRuleOnBothPaths ==
    (Classified /\ ~AugmentationUsed) =>
        LET r == request
            viaDefault == Enhancement(DefaultQuality(r.size, r.source),
                              DefaultSummary(r.company, r.industry, r.size, r.source))
            viaFallback == Enhancement(FallbackQuality(r.size, r.source),
                              FallbackSummary(r.company, r.industry, r.size, r.source))
        IN  /\ ReturnsQuality(OrderedRule(r.size, r.source))
            /\ response.result = viaDefault
            /\ response.result = viaFallback
            /\ \A piece \in {r.company, r.industry, ToStr(r.size), r.source} :
                  Contains(response.result.f.summary.s, piece)

C2_Witness ==
    /\ Classified /\ LLM_AVAILABLE /\ request.llm.kind = "badjson"
    /\ request.size = 100 /\ request.source = <<"PPC">>
    /\ ReturnsQuality(Medium)

----------------------------------------------------------------------------
(* Properties of seed ingestion, under SpecIngest *)

QualityTexts == {JStr(q) : q \in Qualities}

\* C3: no lead is ever stored with a quality outside {High, Medium, Low}.
C3_StoredQualityInSet == \A i \in 1..Len(leads) : leads[i].quality \in QualityTexts

\* A CSV file with nothing wrong in it: sizes and ids parse, ids are distinct.
WellFormed(csv) ==
    /\ csv.exists
    /\ \A i \in 1..Len(csv.rows) :
          IntParses(csv.rows[i].size) /\ IntParses(csv.rows[i].id)
    /\ \A i, j \in 1..Len(csv.rows) : i # j => csv.rows[i].id # csv.rows[j].id

\* C4: whatever the external call does on any row, ingestion of a well-formed
\* CSV file ends with every row persisted as a lead.
C4_EveryRowPersisted ==
    (/\ response.op = "startup"
     /\ response.outcome \in {"loaded", "rolled_back"}
     /\ WellFormed(request.csv)) =>
        /\ Len(leads) = Len(request.csv.rows)
        /\ \A i \in 1..Len(request.csv.rows) :
              \E k \in 1..Len(leads) : leads[k].id = IntOf(request.csv.rows[i].id)

----------------------------------------------------------------------------
(* Properties of the HTTP handlers and the reports, under Spec and SpecFilter *)

GotLeads == response.op = "get_leads" /\ response.status = 200

\* The filter fields the caller supplied as non-null.
Supplied(industry, size) ==
    LET keys == (IF industry # JNull THEN {"industry"} ELSE {})
                \cup (IF size # JNull THEN {"size"} ELSE {})
    IN  [k \in keys |-> IF k = "industry" THEN industry ELSE size]

\* C5: a successful GET /api/leads leaves as the newest event a "filter" event
\* whose data is exactly the filter fields supplied as non-null.
C5_FilterEventHoldsSuppliedFields ==
    GotLeads =>
        /\ events # <<>>
        /\ Last(events).action = "filter"
        /\ LET given == Supplied(request.industry, request.size)
           IN  IF DOMAIN given = {} THEN Last(events).data = JNull
               ELSE Last(events).data = JObj(given)

\* C6: GET /api/leads returns exactly the stored leads whose industry contains
\* the industry filter, case-insensitively, and whose size is >= the size filter.
C6_ExactlyTheMatchingLeads ==
    GotLeads =>
        LET Matches(lead) ==
                /\ request.industry # JNull =>
                      Contains(lower(lead.industry), lower(request.industry.s))
                /\ request.size # JNull => lead.size >= request.size.n
            expected == SelectSeq(leads, Matches)
        IN  /\ Len(response.body) = Len(expected)
            /\ \A i \in 1..Len(expected) : response.body[i].id = ToStr(expected[i].id)

\* C7: the event store is append-only: a stored event never changes and is
\* never removed, ids are unique, and a later event gets a larger id.
C7_AppendOnly ==
    [][ /\ Len(events') >= Len(events)
        /\ SubSeq(events', 1, Len(events)) = events
        /\ \A i, j \in 1..Len(events') : i # j => events'[i].id # events'[j].id
        /\ \A i \in (Len(events) + 1)..Len(events') :
              \A j \in 1..Len(events) : events'[i].id > events[j].id ]_vars

C7_Witness ==
    /\ Len(events) = 2
    /\ events[1].action = "toggle_view" /\ events[2].action = "filter"
    /\ events[1].id < events[2].id
    /\ response.op = "get_leads"

\* ISO-8601 as the caller writes it: a date, optionally followed by "Z" or
\* by an offset.
IsIso(text) ==
    /\ text # <<>>
    /\ AllDigits(IF Last(text) \in {"Z", "+00:00"}
                 THEN SubSeq(text, 1, Len(text) - 1) ELSE text)

IsoTime(text) ==
    NatVal(IF Last(text) \in {"Z", "+00:00"} THEN SubSeq(text, 1, Len(text) - 1) ELSE text)

\* C8: POST /api/events never fails because of its timestamp: the stored event
\* carries the parsed time of a parsable ISO-8601 timestamp and the server time
\* otherwise, and the call fails only when the commit fails or the data cannot
\* be returned; a successful call returns the stored event's id and time.
C8_TimestampNeverFails ==
    response.op = "post_event" =>
        /\ request.commits =>
              /\ events # <<>>
              /\ Last(events).action = request.action
              /\ Last(events).timestamp =
                    IF request.timestamp # JNull /\ IsIso(request.timestamp.s)
                    THEN IsoTime(request.timestamp.s) ELSE request.now
        /\ response.status = 500 =>
              ~request.commits \/ request.data.t \notin {"null", "obj"}
        /\ response.status = 200 =>
              /\ response.body.id = Last(events).id
              /\ response.body.timestamp = isoformat(Last(events).timestamp)

C8_Witness ==
    /\ response.op = "post_event" /\ response.status = 200
    /\ request.timestamp = JStr(<<"3", "Z">>)
    /\ Last(events).timestamp = 3
    /\ Len(events) = 2 /\ events[1].timestamp = request.now

ReportOps ==
    {"get_lead_by_id", "get_usage_analytics", "get_lead_analytics",
     "get_industry_filter_usage"}

\* C9: leads are created only by seed ingestion into an empty store and never
\* change afterwards; the analytics functions leave both stores unchanged.
C9_LeadsImmutable ==
    [][ /\ leads' # leads => (request'.op = "startup" /\ leads = <<>>)
        /\ request'.op \in ReportOps => (leads' = leads /\ events' = events) ]_vars

C9_Witness ==
    /\ leads # <<>> /\ Len(events) = 2
    /\ response.op = "get_usage_analytics" /\ response.status = "ok"

\* C10: when POST /api/events or GET /api/leads answers 500, the call has
\* written nothing: both stores are as before the call.
C10_NoWriteOnError ==
    [][ (response'.op \in {"get_leads", "post_event"} /\ response'.status = 500) =>
            (events' = events /\ leads' = leads) ]_vars

----------------------------------------------------------------------------
(* Properties of interleaved calls, under SpecConcurrent *)

\* The calls whose INSERT of an event committed.
Appended == {p \in Procs : sessions[p].pc \in {"refresh", "done"}
                           /\ sessions[p].op \in {"get_leads", "post_event"}
                           /\ sessions[p].committed}

\* Every committed append is its own stored event, with a distinct id, and the
\* store holds nothing else.
AppendsAllStored ==
    /\ \A i, j \in 1..Len(events) : i # j => events[i].id # events[j].id
    /\ \A p \in Appended :
          Cardinality({i \in 1..Len(events) : events[i] = sessions[p].event}) = 1
    /\ \A p, q \in Appended : p # q => sessions[p].event.id # sessions[q].event.id
    /\ Len(events) = Cardinality(Appended)

\* A call about to write because of what it read earlier: startup ingestion
\* past its check for a stored lead.
WritesOnRead(p) == sessions[p].pc = "load"

\* C11, as stated: whatever the interleaving, every append is its own stored
\* event with a distinct id and none is lost or overwritten, and no call,
\* startup ingestion included, writes on the strength of an earlier read: no
\* call is about to write on a read the store no longer bears out.
C11_NoReadThenWrite ==
    /\ AppendsAllStored
    /\ \A p \in Procs : WritesOnRead(p) => leads = <<>>

Loaded == {p \in Procs : sessions[p].pc = "done" /\ sessions[p].op = "startup"
                         /\ sessions[p].outcome = "loaded"}

\* C11, amended: whatever the interleaving, every append whose commit succeeds
\* is its own stored event with a distinct id and none is lost or overwritten.
\* Startup ingestion does write on an earlier read (no lead was stored), and
\* the primary key of leads, not that read, keeps the store sound: no id is
\* stored twice, every stored lead is a row of a run that committed and every
\* run that committed has all its rows stored.
C11_AppendsNeedNoLock ==
    /\ AppendsAllStored
    /\ \A i, j \in 1..Len(leads) : i # j => leads[i].id # leads[j].id
    /\ \A i \in 1..Len(leads) :
          \E p \in Loaded : \E k \in 1..Len(sessions[p].csv.rows) :
              IntOf(sessions[p].csv.rows[k].id) = leads[i].id
    /\ \A p \in Loaded : \A k \in 1..Len(sessions[p].csv.rows) :
          \E i \in 1..Len(leads) : leads[i].id = IntOf(sessions[p].csv.rows[k].id)

\* A POST still in flight after its INSERT, and a GET that queried and then
\* committed its own event after it.
C11_Witness ==
    /\ sessions[1].pc = "refresh" /\ sessions[1].op = "post_event"
    /\ sessions[2].pc = "done" /\ sessions[2].op = "get_leads"
    /\ sessions[2].committed
    /\ sessions[2].event.id > sessions[1].event.id
    /\ sessions[1].event.action = "filter" /\ sessions[1].event.data = JNull
    /\ sessions[2].event.data = JNull
    /\ sessions[1].event.timestamp = sessions[2].event.timestamp

----------------------------------------------------------------------------
(* Properties of the reports on empty stores, under Spec *)

UsageOnEmpty == response.op = "get_usage_analytics" /\ events = <<>>

LeadsOnEmpty == response.op = "get_lead_analytics" /\ leads = <<>>

Empty(table) == DOMAIN table = {}

LeadReportEmpty ==
    /\ response.status = "ok"
    /\ response.report.total_leads = 0
    /\ Empty(response.report.quality_counts)
    /\ Empty(response.report.quality_percentages)
    /\ Empty(response.report.industry_quality)
    /\ Empty(response.report.size_ranges)
    /\ Empty(response.report.source_quality)

\* C12, as stated: with no events the overall statistics are total 0, active
\* days 0 and mean events per day 0, without error; with no leads the lead
\* analytics report completes and holds nothing but zeros and empties.
C12_EmptyStoresReportZeros ==
    /\ UsageOnEmpty =>
          /\ response.status = "ok"
          /\ response.report.total_events = 0
          /\ response.report.unique_days = 0
          /\ response.report.average = JNum(0)
    /\ LeadsOnEmpty => LeadReportEmpty

----------------------------------------------------------------------------
(* Properties of the lead analytics report, under SpecReports *)

Abs(x) == IF x < 0 THEN 0 - x ELSE x

\* C13: over a non-empty lead store the per-tier counts of the quality
\* distribution sum to the number of leads and the per-tier percentages
\* (count / total * 100, to one decimal) sum to 100 within rounding, half a
\* tenth per tier; three leads High, Medium, Low give 33.3% each.
C13_QualityDistributionSums ==
    (response.op = "get_lead_analytics" /\ leads # <<>>) =>
        LET counts == response.report.quality_counts
            pct == response.report.quality_percentages
            tiers == DOMAIN counts
        IN  /\ response.status = "ok"
            /\ tiers = {leads[i].quality : i \in 1..Len(leads)}
            /\ SumCounts(counts, tiers) = Len(leads)
            /\ response.report.total_leads = Len(leads)
            /\ DOMAIN pct = tiers
            /\ 2 * Abs(SumCounts(pct, tiers) - 1000) <= Cardinality(tiers)
            /\ (Len(leads) = 3 /\ tiers = QualityTexts) =>
                  \A q \in tiers : counts[q] = 1 /\ pct[q] = 333

C13_Witness ==
    /\ response.op = "get_lead_analytics" /\ Len(leads) = 3
    /\ leads[1].quality = JStr(High) /\ leads[1].size = 600
    /\ leads[2].quality = JStr(Medium) /\ leads[2].size = 150
    /\ leads[3].quality = JStr(Low) /\ leads[3].size = 10
    /\ \A q \in QualityTexts : response.report.quality_percentages[q] = 333

----------------------------------------------------------------------------
(* Properties of the event reports, under SpecUsage *)

\* The filter events whose data is a mapping that has the field.
WithField(key) ==
    SelectSeq(events, LAMBDA e : e.action = "filter" /\ e.data.t = "obj"
                                 /\ key \in DOMAIN e.data.f)

CountOf(table, k) == IF k \in DOMAIN table THEN table[k] ELSE 0

\* C14: the filter-usage report and the top-industries report complete
\* whatever the data of the stored filter events, count every filter event
\* whose data is a mapping with the field, and count nothing for an event whose
\* data is null, is not a mapping or lacks the field.
C14_MalformedDataSkipped ==
    /\ response.op = "get_usage_analytics" =>
          /\ response.status = "ok"
          /\ LET having == WithField("industry")
                 values == {having[i].data.f.industry : i \in 1..Len(having)} \ {JNull}
             IN  /\ DOMAIN response.report.industry_filters \ {JNull} = values
                 /\ \A v \in values :
                       response.report.industry_filters[v] =
                           Cardinality({i \in 1..Len(having) : having[i].data.f.industry = v})
          /\ LET sized == WithField("size")
             IN  response.report.size_filters =
                     [i \in 1..Len(sized) |-> sized[i].data.f.size.n]
    /\ response.op = "get_industry_filter_usage" =>
          /\ response.status = "ok"
          /\ \A i \in 1..Len(response.rows) : response.rows[i].industry # JNull
          /\ response.source = <<"industry">> =>
                LET having == SelectSeq(WithField("industry"),
                                  LAMBDA e : e.timestamp >= request.now - Window)
                    values == {having[i].data.f.industry : i \in 1..Len(having)} \ {JNull}
                IN  /\ {response.rows[i].industry : i \in 1..Len(response.rows)} = values
                    /\ \A i \in 1..Len(response.rows) :
                          response.rows[i].uses =
                              Cardinality({k \in 1..Len(having) :
                                  having[k].data.f.industry = response.rows[i].industry})

----------------------------------------------------------------------------
(* Properties of the top industries report, under SpecTopK *)

\* The filter events of the window that name an industry, oldest first.
Filtered ==
    SelectSeq(events, LAMBDA e : /\ e.action = "filter"
                                 /\ e.timestamp >= request.now - Window
                                 /\ e.data.t = "obj"
                                 /\ "industry" \in DOMAIN e.data.f
                                 /\ e.data.f.industry # JNull)

Uses(v) == Cardinality({i \in 1..Len(Filtered) : Filtered[i].data.f.industry = v})

FirstSeen(v) ==
    CHOOSE i \in 1..Len(Filtered) :
        Filtered[i].data.f.industry = v
        /\ \A k \in 1..(i - 1) : Filtered[k].data.f.industry # v

\* v comes before w in the ranking: more uses, or as many and seen first.
Before(v, w) ==
    Uses(v) > Uses(w) \/ (Uses(v) = Uses(w) /\ FirstSeen(v) < FirstSeen(w))

\* C15: the top industries report lists the K = 3 industries most used in the
\* filter events of the trailing 7 days, most used first, each with its exact
\* count, and equal counts in first-seen order; three events for "Healthcare"
\* and one for "Finance" put "Healthcare" with count 3 on top.
C15_TopKFirstSeenTies ==
    response.op = "get_industry_filter_usage" =>
        LET rows == response.rows
            values == {Filtered[i].data.f.industry : i \in 1..Len(Filtered)}
            listed == {rows[i].industry : i \in 1..Len(rows)}
        IN  /\ response.status = "ok"
            /\ Len(rows) = IF Cardinality(values) < TopK THEN Cardinality(values) ELSE TopK
            /\ listed \subseteq values
            /\ \A i \in 1..Len(rows) : rows[i].uses = Uses(rows[i].industry)
            /\ \A i, j \in 1..Len(rows) : i < j => Before(rows[i].industry, rows[j].industry)
            /\ \A v \in values \ listed : \A w \in listed : Before(w, v)

----------------------------------------------------------------------------
(* Properties of repeated startup, under SpecRestart *)

\* The lead store holds every row of the file, each once, and nothing else.
HoldsEveryRow(table, csv) ==
    /\ Len(table) = Len(csv.rows)
    /\ \A i \in 1..Len(csv.rows) :
          Cardinality({k \in 1..Len(table) :
              /\ table[k].id = IntOf(csv.rows[i].id)
              /\ table[k].name = csv.rows[i].name
              /\ table[k].company = csv.rows[i].company
              /\ table[k].size = IntOf(csv.rows[i].size)}) = 1

\* A row that cannot be stored: its size or id does not parse, or its id is
\* the id of another row of the file.
BadRow(csv, i) ==
    \/ ~IntParses(csv.rows[i].size)
    \/ ~IntParses(csv.rows[i].id)
    \/ \E k \in 1..Len(csv.rows) : k # i /\ csv.rows[k].id = csv.rows[i].id

\* C16: a run of startup on an empty lead store leaves it holding every row of
\* the CSV file or none (a bad row anywhere leaves none); a run on a store that
\* holds a lead leaves it unchanged; so no id is ever stored twice.
C16_AllOrNothingIdempotent ==
    [][ request'.op = "startup" =>
          /\ leads # <<>> => leads' = leads
          /\ (leads = <<>> /\ response'.outcome \in {"loaded", "rolled_back"}) =>
                /\ leads' = <<>> \/ HoldsEveryRow(leads', request'.csv)
                /\ (\E i \in 1..Len(request'.csv.rows) : BadRow(request'.csv, i)) =>
                      leads' = <<>>
          /\ (leads = <<>> /\ response'.outcome = "no_csv") => leads' = <<>>
          /\ \A i, j \in 1..Len(leads') : i # j => leads'[i].id # leads'[j].id ]_vars

\* A file whose second row repeats the id of the first: nothing is stored.
C16_Witness ==
    /\ response.op = "startup" /\ response.outcome = "rolled_back"
    /\ Len(request.csv.rows) = 2
    /\ request.csv.rows[1].id = request.csv.rows[2].id
    /\ request.csv.rows[1] # request.csv.rows[2]
    /\ leads = <<>>

====
